---- MODULE Spec2Model ----
(***************************************************************************)
(* Model of the face-to-face (QR code) payment integration:                *)
(*   alipay_service.py  parse_response, custom_sign, verify_sign,          *)
(*                      AlipayService (precreate, query, cancel, refund)   *)
(*   app_api.py         validate_amount, validate_required, the HTTP       *)
(*                      endpoints and the notification handler             *)
(*                                                                         *)
(* The service keeps no state between requests: the state is the           *)
(* configuration loaded at start, the request being served, the response   *)
(* produced for it and what the handler did on the way (the string handed  *)
(* to the verifier and its answer, the gateway calls made).                *)
(*                                                                         *)
(* Python values are records tagged by their type:                         *)
(*   None        [t |-> "None"]                                            *)
(*   str         [t |-> "str", s |-> sequence of tokens]  ("" is <<>>)     *)
(*   str holding a base64 signature   [t |-> "sigstr", sig |-> ...]        *)
(*   int/float   [t |-> "num", cents |-> hundredths]                       *)
(*   nan, inf    [t |-> "nan"], [t |-> "inf", neg |-> BOOLEAN]             *)
(*   str holding decimal text         [t |-> "numstr", cents |-> ...]      *)
(*   list        [t |-> "list", len |-> length]                            *)
(*   dict        [t |-> "dict", d |-> function from keys to values]        *)
(***************************************************************************)
EXTENDS Integers, Sequences, FiniteSets, TLC

VARIABLES
    config,         \* alipay_config.config: sign_type, alipay_public_key
    pc,             \* "serving" (waiting for a request) or "responded"
    req,            \* the request served, or the direct call made
    resp,           \* the HTTP response, or the outcome of the direct call
    verify_call,    \* the verify_sign call made by alipay_notify, if any
    gateway_log     \* the requests passed to client.execute while serving

vars == <<config, pc, req, resp, verify_call, gateway_log>>

------------------------------------------------------------------------------
(* Bounds of the model *)

\* RSA key pairs in the world: pair 1 is the gateway's, the others are foreign
NumKeyPairs == 2

\* fields of a notification form (arrival order matters to the sort)
MaxFormLen == 4

\* amounts range over -MaxCents .. MaxCents hundredths
MaxCents == 2

\* distinct uuid4 values the generator can produce
NumUuids == 2

------------------------------------------------------------------------------
(* Python values *)

None == [t |-> "None"]
Str(seq) == [t |-> "str", s |-> seq]
Num(c) == [t |-> "num", cents |-> c]
NaN == [t |-> "nan"]
Inf(n) == [t |-> "inf", neg |-> n]
NumStr(c) == [t |-> "numstr", cents |-> c]   \* a str that is decimal text
PyList(n) == [t |-> "list", len |-> n]
Dict(f) == [t |-> "dict", d |-> f]

\* truth value of a Python object (`if not x`)
Truthy(v) ==
    CASE v.t = "None"   -> FALSE
      [] v.t = "str"    -> v.s # <<>>
      [] v.t = "sigstr" -> TRUE
      [] v.t = "num"    -> v.cents # 0
      [] v.t = "nan"    -> TRUE
      [] v.t = "inf"    -> TRUE
      [] v.t = "numstr" -> TRUE
      [] v.t = "list"   -> v.len > 0
      [] v.t = "dict"   -> DOMAIN v.d # {}
      [] OTHER          -> TRUE

\* `a or b`
PyOr(a, b) == IF Truthy(a) THEN a ELSE b

\* dict.get(k) and dict.get(k, default)
GetOr(f, k, default) == IF k \in DOMAIN f THEN f[k] ELSE default
Get(f, k) == GetOr(f, k, None)

\* str(v) and f"{v}": the text of a value, as tokens
Format(v) ==
    CASE v.t = "None"   -> <<"None">>
      [] v.t = "str"    -> v.s
      [] v.t = "numstr" -> <<"decimal", ToString(v.cents)>>
      [] v.t = "num"    -> <<"decimal", ToString(v.cents)>>
      [] v.t = "nan"    -> <<"nan">>
      [] v.t = "inf"    -> IF v.neg THEN <<"-inf">> ELSE <<"inf">>
      [] OTHER          -> <<"repr">>

\* str(v): a str object
PyStr(v) ==
    CASE v.t = "str"    -> v
      [] v.t = "numstr" -> v
      [] v.t = "num"    -> NumStr(v.cents)
      [] OTHER          -> Str(Format(v))

\* outcome of a call: a returned value or a raised exception
Return(v) == [ok |-> TRUE, value |-> v]
Raise(kind, m) == [ok |-> FALSE, exc |-> kind, message |-> m]

------------------------------------------------------------------------------
(* RSA, hashing and key material *)

\* Key material as configured: PEM markers around a base64 body.
\* marker "" is a bare base64 body; body 0 is not a key, body p > 0 is the
\* DER encoding of the key of pair p.
KeyMaterial(marker, body) == [marker |-> marker, body |-> body]

\* markers verify_sign strips (lines 103-104) and custom_sign strips (60-63)
PublicMarkers == {"PUBLIC KEY"}
PrivateMarkers == {"PRIVATE KEY", "RSA PRIVATE KEY"}

\* str.replace of the listed markers and line breaks
StripMarkers(raw, markers) ==
    IF raw.marker \in markers THEN KeyMaterial("", raw.body) ELSE raw

\* RSA.import_key(base64.b64decode(key_str)): the text must be a bare base64
\* body that encodes a key
ImportDecoded(key_str) ==
    IF key_str.marker = "" /\ key_str.body > 0
    THEN Return(key_str.body) ELSE Raise("ValueError", <<"RSA key format is not supported">>)

\* RSA.import_key(raw): the text must be a PEM document holding a key
ImportPem(raw) ==
    IF raw.marker # "" /\ raw.body > 0
    THEN Return(raw.body) ELSE Raise("ValueError", <<"RSA key format is not supported">>)

\* try: import decoded / except: import the raw string (lines 68-76, 109-113)
LoadKey(raw, markers) ==
    LET first == ImportDecoded(StripMarkers(raw, markers))
    IN  IF first.ok THEN first ELSE ImportPem(raw)

\* the digest chosen from the configured sign type (lines 79-82, 116-119)
DigestFor(sign_type, content) ==
    IF sign_type = "RSA2" THEN <<"SHA256", content>> ELSE <<"SHA1", content>>

\* pkcs1_15.new(key).sign(digest), base64 encoded: a str
SigStr(pair, digest) == [t |-> "sigstr", sig |-> [pair |-> pair, digest |-> digest]]

\* base64.b64decode(sign) then pkcs1_15.new(key).verify(digest, bytes)
\* raises unless the bytes are the signature of that digest under that key
PkcsVerifies(pair, digest, sign) ==
    /\ sign.t = "sigstr"
    /\ sign.sig.pair = pair
    /\ sign.sig.digest = digest

custom_sign(cfg, content, private_key_raw) ==
    LET key == LoadKey(private_key_raw, PrivateMarkers)
    IN  IF ~key.ok THEN key
        ELSE Return(SigStr(key.value, DigestFor(cfg.sign_type, content)))

verify_sign_AlwaysSha256(cfg, content, sign, alipay_public_key_raw) ==
    LET key == LoadKey(alipay_public_key_raw, PublicMarkers)
    IN  IF ~key.ok THEN key
        ELSE Return(PkcsVerifies(key.value, <<"SHA256", content>>, sign))

verify_sign(cfg, content, sign, alipay_public_key_raw) ==
    LET key == LoadKey(alipay_public_key_raw, PublicMarkers)
    IN  IF ~key.ok THEN key
        ELSE Return(PkcsVerifies(key.value, DigestFor(cfg.sign_type, content), sign))

------------------------------------------------------------------------------
(* Notification forms *)

\* the form keys in ascending (code point) order, as sorted() compares them
ParamKeys == <<"out_trade_no", "sign", "sign_type", "total_amount", "trade_status">>
KeyRank(k) == CHOOSE i \in 1..Len(ParamKeys) : ParamKeys[i] = k
KeyLess(a, b) == KeyRank(a) < KeyRank(b)
FormKeys == {ParamKeys[i] : i \in 1..Len(ParamKeys)}

TradeStatuses == {"TRADE_SUCCESS", "TRADE_FINISHED", "TRADE_CLOSED", "WAIT_BUYER_PAY", "UNKNOWN"}

\* values a field of the form can carry (form values are always str)
FieldValues(k) ==
    CASE k = "out_trade_no" -> {Str(<<>>), Str(<<"T1">>)}
      [] k = "sign_type"    -> {Str(<<"RSA2">>)}
      [] k = "total_amount" -> {Str(<<"0.01">>)}
      [] k = "trade_status" -> {Str(<<>>)} \cup {Str(<<st>>) : st \in TradeStatuses}
      [] OTHER              -> {}

KeysOf(items) == {items[i][1] : i \in 1..Len(items)}

\* forms without a sign field: up to n fields with distinct keys, in any order
RECURSIVE UnsignedForms(_)
UnsignedForms(n) ==
    IF n = 0 THEN {<<>>}
    ELSE LET shorter == UnsignedForms(n - 1)
         IN  shorter \cup UNION { UNION { {Append(f, <<k, v>>) : v \in FieldValues(k)}
                                          : k \in (FormKeys \ {"sign"}) \ KeysOf(f) }
                                  : f \in shorter }

\* What the gateway signs: the non-empty fields other than sign and sign_type,
\* in ascending key order, as key=value joined by & (the gateway's rule, the
\* counterpart of the handler's own construction below).
RECURSIVE GatewayContentFrom(_, _)
GatewayContentFrom(f, i) ==
    IF i > Len(ParamKeys) THEN <<>>
    ELSE LET k == ParamKeys[i]
             hit == {j \in 1..Len(f) : f[j][1] = k /\ k \notin {"sign", "sign_type"}
                                        /\ f[j][2].s # <<>>}
             rest == GatewayContentFrom(f, i + 1)
         IN  IF hit = {} THEN rest
             ELSE LET j == CHOOSE x \in hit : TRUE
                      pair == <<k, "=">> \o f[j][2].s
                  IN  IF rest = <<>> THEN pair ELSE pair \o <<"&">> \o rest
GatewaySignContent(f) == GatewayContentFrom(f, 1)

\* sign values a sender can attach to the form f: empty, not base64 of a
\* signature, a signature by any key pair under either hash over the right
\* content, and the gateway's signature over other content
SignValues(f) ==
    {Str(<<>>), Str(<<"garbage">>)}
    \cup {SigStr(p, <<h, GatewaySignContent(f)>>) : p \in 1..NumKeyPairs, h \in {"SHA1", "SHA256"}}
    \cup {SigStr(1, <<h, GatewaySignContent(f) \o <<"&", "tampered">>>>) : h \in {"SHA1", "SHA256"}}

InsertAt(f, i, e) == SubSeq(f, 1, i) \o <<e>> \o SubSeq(f, i + 1, Len(f))

\* request.form of POST /api/notify
NotifyForms ==
    UnsignedForms(MaxFormLen)
    \cup UNION { {InsertAt(f, i, <<"sign", sv>>) : i \in 0..Len(f), sv \in SignValues(f)}
                 : f \in UnsignedForms(MaxFormLen - 1) }

------------------------------------------------------------------------------
(* alipay_notify *)

\* dict.pop(key, default) and dict.get(key, default) on a dict kept in
\* insertion order: the value, and the dict without the key
ItemOr(items, key, default) ==
    LET hit == {i \in 1..Len(items) : items[i][1] = key}
    IN  IF hit = {} THEN default ELSE items[CHOOSE i \in hit : TRUE][2]
PopRest(items, key) == SelectSeq(items, LAMBDA it : it[1] # key)

\* sorted(params.items()): ascending by key
RECURSIVE InsertSorted(_, _)
InsertSorted(it, sorted) ==
    IF sorted = <<>> THEN <<it>>
    ELSE IF KeyLess(it[1], Head(sorted)[1]) THEN <<it>> \o sorted
    ELSE <<Head(sorted)>> \o InsertSorted(it, Tail(sorted))
Sorted_ArrivalOrder(items) == items
RECURSIVE Sorted(_)
Sorted(items) ==
    IF items = <<>> THEN <<>> ELSE InsertSorted(Head(items), Sorted(Tail(items)))

\* '&'.join(f"{k}={v}" for k, v in items)
RECURSIVE JoinPairs(_)
JoinPairs(items) ==
    IF items = <<>> THEN <<>>
    ELSE LET pair == <<Head(items)[1], "=">> \o Head(items)[2].s
         IN  IF Tail(items) = <<>> THEN pair ELSE pair \o <<"&">> \o JoinPairs(Tail(items))

\* lines 371-373
BuildSignContent(params) ==
    JoinPairs(SelectSeq(Sorted(params), LAMBDA it : Truthy(it[2])))

StatusDispatch_UnknownFails(params) ==
    LET trade_status == ItemOr(params, "trade_status", Str(<<>>))
    IN  IF trade_status \in {Str(<<"TRADE_SUCCESS">>), Str(<<"TRADE_FINISHED">>),
                             Str(<<"TRADE_CLOSED">>), Str(<<"WAIT_BUYER_PAY">>)}
        THEN "success" ELSE "fail"

\* lines 384, 396-415: the answer once the signature has verified
StatusDispatch(params) ==
    LET trade_status == ItemOr(params, "trade_status", Str(<<>>))
    IN  IF trade_status \in {Str(<<"TRADE_SUCCESS">>), Str(<<"TRADE_FINISHED">>)} THEN "success"
        ELSE IF trade_status = Str(<<"TRADE_CLOSED">>) THEN "success"
        ELSE IF trade_status = Str(<<"WAIT_BUYER_PAY">>) THEN "success"
        ELSE "success"

NoVerify == [called |-> FALSE]
PlainResponse(status, body) == [status |-> status, body |-> body]
\* an exception that escapes a view function: Flask answers 500
UnhandledError == PlainResponse(500, "Internal Server Error")

alipay_notify ==
    /\ pc = "serving"
    /\ \E form \in NotifyForms :
         LET sign    == ItemOr(form, "sign", None)
             params  == PopRest(PopRest(form, "sign"), "sign_type")
             content == BuildSignContent(params)
             outcome == verify_sign(config, content, sign, config.alipay_public_key)
         IN  /\ req' = [route |-> "POST /api/notify", form |-> form]
             /\ IF ~Truthy(sign)
                THEN /\ verify_call' = NoVerify
                     /\ resp' = PlainResponse(200, "fail")
                ELSE /\ verify_call' = [called |-> TRUE, content |-> content, outcome |-> outcome]
                     /\ resp' = IF ~outcome.ok THEN UnhandledError
                                ELSE IF ~outcome.value THEN PlainResponse(200, "fail")
                                ELSE PlainResponse(200, StatusDispatch(params))
    /\ pc' = "responded"
    /\ UNCHANGED <<config, gateway_log>>

------------------------------------------------------------------------------
(* Input validation (app_api.py) *)

\* the message literals of the source, in ASCII:
\*   "不能为空" -> " must not be empty"     "必须大于0" -> " must be greater than 0"
\*   "格式非法" -> " has an illegal format"
\*   "金额" -> "amount"   "退款金额" -> "refund amount"
\*   "商品标题" -> "subject"   "订单号" -> "order id"

\* str.strip(): a " " token is white space
RECURSIVE LStrip(_)
LStrip(seq) == IF seq # <<>> /\ Head(seq) = " " THEN LStrip(Tail(seq)) ELSE seq
RECURSIVE RStrip(_)
RStrip(seq) ==
    IF seq # <<>> /\ seq[Len(seq)] = " " THEN RStrip(SubSeq(seq, 1, Len(seq) - 1)) ELSE seq
Strip_LeftOnly(v) == IF v.t = "str" THEN Str(LStrip(v.s)) ELSE v
Strip(v) == IF v.t = "str" THEN Str(RStrip(LStrip(v.s))) ELSE v

\* float(x)
ToFloat(v) ==
    CASE v.t = "num"    -> Return(v)
      [] v.t = "nan"    -> Return(v)
      [] v.t = "inf"    -> Return(v)
      [] v.t = "numstr" -> Return(Num(v.cents))
      [] v.t = "str"    -> IF Strip(v) = Str(<<"nan">>) THEN Return(NaN)
                           ELSE IF Strip(v) = Str(<<"inf">>) THEN Return(Inf(FALSE))
                           ELSE Raise("ValueError", <<"could not convert string to float">>)
      [] OTHER          -> Raise("TypeError", <<"float() argument must be a string or a number">>)

\* x <= 0 on floats: every comparison with nan is false
LeqZero(f) ==
    CASE f.t = "num" -> f.cents <= 0
      [] f.t = "inf" -> f.neg
      [] OTHER       -> FALSE

validate_amount(amount, field_name) ==
    IF ~Truthy(amount) THEN Raise("ValueError", <<field_name, " must not be empty">>)
    ELSE LET f == ToFloat(amount)
         IN  IF ~f.ok THEN Raise("ValueError", <<field_name, " has an illegal format">>)
             ELSE IF LeqZero(f.value)
                  \* the ValueError raised inside the try is caught by its except
                  THEN Raise("ValueError", <<field_name, " has an illegal format">>)
                  ELSE Return(f.value)

validate_required(value, field_name) ==
    IF ~Truthy(value) THEN Raise("ValueError", <<field_name, " must not be empty">>)
    ELSE LET value_str == Strip(PyStr(value))
         IN  IF ~Truthy(value_str) THEN Raise("ValueError", <<field_name, " must not be empty">>)
             ELSE Return(value_str)

JsonResponse(status, body) == [status |-> status, json |-> body]
error_response(message, status) == JsonResponse(status, [code |-> -1, message |-> message])

------------------------------------------------------------------------------
(* Gateway responses and parse_response (alipay_service.py) *)

\* a str whose text is the JSON encoding of v
JsonText(v) == [t |-> "jsontext", v |-> v]

\* json.loads
JsonLoads(text) ==
    IF text.t = "jsontext" THEN Return(text.v)
    ELSE Raise("JSONDecodeError", <<"Expecting value">>)

\* line 36 negated: code == "10000"
CodeIsSuccess_AbsentPasses(code) == code \in {None, Str(<<"10000">>)}
CodeIsSuccess(code) == code = Str(<<"10000">>)

\* line 37: f"{sub_code}: {sub_msg or msg}"
BusinessErrorMessage_MsgFirst(sub_code, sub_msg, msg) ==
    Format(sub_code) \o <<": ">> \o Format(PyOr(msg, sub_msg))
BusinessErrorMessage(sub_code, sub_msg, msg) ==
    Format(sub_code) \o <<": ">> \o Format(PyOr(sub_msg, msg))

parse_response(resp_str, response_key) ==
    LET loaded == IF resp_str.t \in {"str", "numstr", "sigstr", "jsontext"}
                  THEN JsonLoads(resp_str) ELSE Return(resp_str)
    IN  IF ~loaded.ok THEN loaded
        ELSE IF loaded.value.t = "dict"
        THEN LET result == GetOr(loaded.value.d, response_key, loaded.value)
             IN  IF result.t # "dict"
                 THEN Raise("AttributeError", <<"object has no attribute 'get'">>)
                 ELSE LET code    == Get(result.d, "code")
                          msg     == Get(result.d, "msg")
                          sub_code == Get(result.d, "sub_code")
                          sub_msg == Get(result.d, "sub_msg")
                      IN  IF ~CodeIsSuccess(code)
                          THEN Raise("Exception", BusinessErrorMessage(sub_code, sub_msg, msg))
                          ELSE Return(result)
        ELSE Raise("Exception", <<"unexpected format: ">> \o Format(resp_str))

\* The result objects a gateway can answer with: the envelope fields, each
\* absent or present, and one field x of the operation.
Absent == [t |-> "absent"]
Codes == {Absent, Str(<<"10000">>), Str(<<"40004">>)}
Msgs == {Absent, Str(<<"Business Failed">>)}
SubCodes == {Absent, Str(<<"ACQ.TRADE_NOT_EXIST">>)}
SubMsgs == {Absent, Str(<<>>), Str(<<"trade not exist">>)}

MkResult(code, msg, sub_code, sub_msg, xkey, x) ==
    LET all == [k \in {"code", "msg", "sub_code", "sub_msg", xkey} |->
                    CASE k = "code"     -> code
                      [] k = "msg"      -> msg
                      [] k = "sub_code" -> sub_code
                      [] k = "sub_msg"  -> sub_msg
                      [] OTHER          -> x]
    IN  Dict([k \in {kk \in DOMAIN all : all[kk] # Absent} |-> all[k]])

Results(xkey, xvalues) ==
    {MkResult(c, m, sc, sm, xkey, x) :
        c \in Codes, m \in Msgs, sc \in SubCodes, sm \in SubMsgs, x \in xvalues}

\* what client.execute can return for an operation: the result under its
\* envelope key or bare, text that is not JSON, JSON that is no object, and
\* an envelope whose member is no object
Bodies(response_key, xkey, xvalues) ==
    {JsonText(Dict(response_key :> r)) : r \in Results(xkey, xvalues)}
    \cup {JsonText(r) : r \in Results(xkey, xvalues)}
    \cup {Str(<<"<html>">>), JsonText(PyList(1)),
          JsonText(Dict(response_key :> Str(<<"oops">>)))}

\* client.execute(request): raises (transport, signing) or returns a body
ExecOutcomes(response_key, xkey, xvalues) ==
    {Raise("Exception", <<"transport error">>)}
    \cup {Return(b) : b \in Bodies(response_key, xkey, xvalues)}

QrCodes == {Absent, Str(<<>>), Str(<<"https://qr.alipay.com/bax0">>)}
QueryStatuses == {Absent, Str(<<"TRADE_SUCCESS">>)}
NoExtra == {Absent}

PrecreateOutcomes == ExecOutcomes("alipay_trade_precreate_response", "qr_code", QrCodes)
QueryOutcomes == ExecOutcomes("alipay_trade_query_response", "trade_status", QueryStatuses)
CancelOutcomes == ExecOutcomes("alipay_trade_cancel_response", "action", NoExtra)
RefundOutcomes == ExecOutcomes("alipay_trade_refund_response", "refund_fee", NoExtra)

------------------------------------------------------------------------------
(* AlipayService: each method given the outcome of its client.execute call *)

\* self.client.execute(request): the request goes to the gateway, once
Execute_Retrying(log, request) == Append(Append(log, request), request)
Execute(log, request) == Append(log, request)

GatewayRequest(method, biz_content) == [method |-> method, biz_content |-> biz_content]

PrecreateRequest(out_trade_no, total_amount, subject) ==
    GatewayRequest("alipay.trade.precreate",
        [out_trade_no |-> out_trade_no, total_amount |-> PyStr(total_amount),
         subject |-> subject])

create_qr_payment_ReturnsCode(executed) ==
    IF ~executed.ok THEN executed
    ELSE LET result == parse_response(executed.value, "alipay_trade_precreate_response")
         IN  IF ~result.ok THEN result ELSE Return(Get(result.value.d, "code"))

create_qr_payment(executed) ==
    IF ~executed.ok THEN executed
    ELSE LET result == parse_response(executed.value, "alipay_trade_precreate_response")
         IN  IF ~result.ok THEN result ELSE Return(Get(result.value.d, "qr_code"))

service_query_order(executed) ==
    IF ~executed.ok THEN executed
    ELSE parse_response(executed.value, "alipay_trade_query_response")

service_cancel_order(executed) ==
    IF ~executed.ok THEN executed
    ELSE parse_response(executed.value, "alipay_trade_cancel_response")

service_refund(executed) ==
    IF ~executed.ok THEN executed
    ELSE parse_response(executed.value, "alipay_trade_refund_response")

------------------------------------------------------------------------------
(* HTTP endpoints (app_api.py) *)

\* str(uuid.uuid4()): 32 hexadecimal digits in five groups joined by "-"
Uuid4(n) == [i \in 1..36 |-> IF i \in {9, 14, 19, 24} THEN "-" ELSE ToString(n)]

\* str(uuid.uuid4()).replace('-', '')[:20]
GeneratedOrderId_Untruncated(n) == Str(SelectSeq(Uuid4(n), LAMBDA c : c # "-"))
GeneratedOrderId(n) ==
    LET hex == SelectSeq(Uuid4(n), LAMBDA c : c # "-")
    IN  Str(SubSeq(hex, 1, IF Len(hex) < 20 THEN Len(hex) ELSE 20))

\* the uuid draws an order id needs: none when the caller supplied one
UuidDraws(out_trade_no) == IF Truthy(out_trade_no) THEN {0} ELSE 1..NumUuids
OrderIdFor(out_trade_no, n) == IF Truthy(out_trade_no) THEN out_trade_no ELSE GeneratedOrderId(n)

\* amounts a JSON body can carry
JsonAmounts ==
    {None, NaN, Str(<<>>), Str(<<"abc">>), Str(<<"nan">>), PyList(0), PyList(1)}
    \cup {Num(c) : c \in -MaxCents..MaxCents}
    \cup {NumStr(c) : c \in -MaxCents..MaxCents}
\* amounts a query string can carry
ArgAmounts ==
    {None, Str(<<>>), Str(<<"abc">>), Str(<<"nan">>)} \cup {NumStr(c) : c \in -MaxCents..MaxCents}
Subjects == {None, Str(<<>>), Str(<<" ">>), Str(<<" ", "test", " ">>)}
OrderIdInputs == {None, Str(<<>>), Str(<<"T1">>)}
PathOrderIds == {Str(<<" ">>), Str(<<"T1">>)}
Reasons == {Absent, None, Str(<<" ", "broken", " ">>)}

HostUrl == "http://localhost:5000"

\* lines 105-127
PayNowAnswer(order_id, amount_float, subject, qr_code) ==
    IF ~qr_code.ok
    THEN [status |-> 500, text |-> <<"payment creation failed: ">> \o qr_code.message]
    ELSE IF ~Truthy(qr_code.value)
    THEN [status |-> 400, text |-> <<"payment creation failed: no QR code">>]
    ELSE [status |-> 200,
          html |-> [template |-> "pay.html", order_id |-> order_id, qr_code |-> qr_code.value,
                    amount |-> PyStr(amount_float), subject |-> subject]]

pay_now ==
    /\ pc = "serving"
    /\ \E total_amount \in ArgAmounts, amount \in {None, NumStr(1)},
          subject \in Subjects \ {Str(<<>>)}, out_trade_no \in OrderIdInputs :
         LET args == [total_amount |-> total_amount, amount |-> amount,
                      subject |-> subject, out_trade_no |-> out_trade_no]
             amount_float == validate_amount(PyOr(total_amount, amount), "amount")
             subject_str == validate_required(subject, "subject")
         IN  IF ~amount_float.ok \/ ~subject_str.ok
             THEN /\ req' = [route |-> "GET /paynow", args |-> args]
                  /\ gateway_log' = <<>>
                  /\ resp' = error_response(IF ~amount_float.ok THEN amount_float.message
                                            ELSE subject_str.message, 400)
             ELSE \E n \in UuidDraws(out_trade_no), executed \in PrecreateOutcomes :
                    LET order_id == OrderIdFor(out_trade_no, n)
                    IN  /\ req' = [route |-> "GET /paynow", args |-> args, uuid |-> n,
                                   executed |-> executed]
                        /\ gateway_log' = Execute(gateway_log,
                               PrecreateRequest(order_id, amount_float.value,
                                                subject_str.value))
                        /\ resp' = PayNowAnswer(order_id, amount_float.value, subject_str.value,
                                                create_qr_payment(executed))
    /\ pc' = "responded"
    /\ UNCHANGED <<config, verify_call>>

\* lines 177-198
CreatePayAnswer(order_id, amount_float, subject, qr_code) ==
    IF ~qr_code.ok THEN error_response(qr_code.message, 500)
    ELSE JsonResponse(200,
            [code |-> 0, qr_code |-> qr_code.value,
             pay_url |-> <<HostUrl, "/pay/">> \o Format(order_id) \o <<"?qr=">>
                         \o Format(qr_code.value),
             order_id |-> order_id, amount |-> amount_float, subject |-> subject])

create_pay ==
    /\ pc = "serving"
    /\ \E total_amount \in JsonAmounts, subject \in Subjects, out_trade_no \in OrderIdInputs :
         LET data == [total_amount |-> total_amount, subject |-> subject,
                      out_trade_no |-> out_trade_no]
             amount_float == validate_amount(total_amount, "amount")
             subject_str == validate_required(subject, "subject")
         IN  IF ~amount_float.ok \/ ~subject_str.ok
             THEN /\ req' = [route |-> "POST /api/pay/create", data |-> data]
                  /\ gateway_log' = <<>>
                  /\ resp' = error_response(IF ~amount_float.ok THEN amount_float.message
                                            ELSE subject_str.message, 400)
             ELSE \E n \in UuidDraws(out_trade_no), executed \in PrecreateOutcomes :
                    LET order_id == OrderIdFor(out_trade_no, n)
                    IN  /\ req' = [route |-> "POST /api/pay/create", data |-> data, uuid |-> n,
                                   executed |-> executed]
                        /\ gateway_log' = Execute(gateway_log,
                               PrecreateRequest(order_id, amount_float.value,
                                                subject_str.value))
                        /\ resp' = CreatePayAnswer(order_id, amount_float.value,
                                                   subject_str.value, create_qr_payment(executed))
    /\ pc' = "responded"
    /\ UNCHANGED <<config, verify_call>>

\* lines 234-257
QueryOrderAnswer(order_id, result) ==
    IF ~result.ok THEN error_response(result.message, 500)
    ELSE IF result.value.t # "dict"
    THEN error_response(<<"query result has an unexpected format">>, 500)
    ELSE JsonResponse(200,
            [code |-> 0, order_id |-> order_id,
             trade_status |-> GetOr(result.value.d, "trade_status", Str(<<"unknown">>)),
             amount |-> GetOr(result.value.d, "total_amount", Str(<<>>)),
             data |-> result.value])

query_order ==
    /\ pc = "serving"
    /\ \E order_id \in PathOrderIds :
         IF ~Truthy(order_id) \/ ~Truthy(Strip(order_id))
         THEN /\ req' = [route |-> "GET /api/order/query", order_id |-> order_id]
              /\ gateway_log' = <<>>
              /\ resp' = error_response(<<"order id must not be empty">>, 400)
         ELSE \E executed \in QueryOutcomes :
                /\ req' = [route |-> "GET /api/order/query", order_id |-> order_id,
                           executed |-> executed]
                /\ gateway_log' = Execute(gateway_log,
                       GatewayRequest("alipay.trade.query", [out_trade_no |-> order_id]))
                /\ resp' = QueryOrderAnswer(order_id, service_query_order(executed))
    /\ pc' = "responded"
    /\ UNCHANGED <<config, verify_call>>

\* lines 282-291
CancelOrderAnswer(result) ==
    IF ~result.ok THEN error_response(result.message, 500)
    ELSE JsonResponse(200, [code |-> 0, data |-> result.value])

cancel_order ==
    /\ pc = "serving"
    /\ \E order_id \in PathOrderIds :
         IF ~Truthy(order_id) \/ ~Truthy(Strip(order_id))
         THEN /\ req' = [route |-> "POST /api/order/cancel", order_id |-> order_id]
              /\ gateway_log' = <<>>
              /\ resp' = error_response(<<"order id must not be empty">>, 400)
         ELSE \E executed \in CancelOutcomes :
                /\ req' = [route |-> "POST /api/order/cancel", order_id |-> order_id,
                           executed |-> executed]
                /\ gateway_log' = Execute(gateway_log,
                       GatewayRequest("alipay.trade.cancel", [out_trade_no |-> order_id]))
                /\ resp' = CancelOrderAnswer(service_cancel_order(executed))
    /\ pc' = "responded"
    /\ UNCHANGED <<config, verify_call>>

\* lines 330-344
RefundAnswer(result) ==
    IF ~result.ok THEN error_response(result.message, 500)
    ELSE JsonResponse(200, [code |-> 0, data |-> result.value,
                            message |-> <<"refund succeeded">>])

refund ==
    /\ pc = "serving"
    /\ \E out_trade_no \in OrderIdInputs, refund_amount \in JsonAmounts, reason \in Reasons :
         LET data == [out_trade_no |-> out_trade_no, refund_amount |-> refund_amount,
                      reason |-> reason]
             order_id == validate_required(out_trade_no, "order id")
             amount_float == validate_amount(refund_amount, "refund amount")
             refund_reason == Strip(PyStr(IF reason = Absent THEN Str(<<>>) ELSE reason))
         IN  IF ~order_id.ok \/ ~amount_float.ok
             THEN /\ req' = [route |-> "POST /api/refund", data |-> data]
                  /\ gateway_log' = <<>>
                  /\ resp' = error_response(IF ~order_id.ok THEN order_id.message
                                            ELSE amount_float.message, 400)
             ELSE \E executed \in RefundOutcomes :
                    /\ req' = [route |-> "POST /api/refund", data |-> data,
                               executed |-> executed]
                    /\ gateway_log' = Execute(gateway_log,
                           GatewayRequest("alipay.trade.refund",
                               [out_trade_no |-> order_id.value,
                                refund_amount |-> PyStr(amount_float.value),
                                refund_reason |-> refund_reason]))
                    /\ resp' = RefundAnswer(service_refund(executed))
    /\ pc' = "responded"
    /\ UNCHANGED <<config, verify_call>>

\* GET /api/notify
alipay_notify_check ==
    /\ pc = "serving"
    /\ req' = [route |-> "GET /api/notify"]
    /\ resp' = PlainResponse(200, "notify endpoint ok")
    /\ pc' = "responded"
    /\ UNCHANGED <<config, verify_call, gateway_log>>

------------------------------------------------------------------------------
(* Direct calls of the helper functions, on inputs drawn from bounded sets *)

\* non-empty contents to sign
Contents == {<<"out_trade_no", "=", "T1">>,
             <<"out_trade_no", "=", "T1", "&", "trade_status", "=", "TRADE_SUCCESS">>}

\* key material: bare base64, PEM under a marker the function strips, PEM
\* under a marker it leaves in place; body 0 is no key
PublicKeyInputs ==
    {KeyMaterial(m, b) : m \in {""} \cup PublicMarkers \cup {"RSA PUBLIC KEY"},
                         b \in 0..NumKeyPairs}
PrivateKeyInputs ==
    {KeyMaterial(m, b) : m \in {""} \cup PrivateMarkers, b \in 0..NumKeyPairs}
SignInputs ==
    {Str(<<>>), Str(<<"garbage">>)}
    \cup {SigStr(p, <<h, c>>) : p \in 1..NumKeyPairs, h \in {"SHA1", "SHA256"}, c \in Contents}

\* lines 182-191: the functions put in place of the SDK's sign_with_rsa2 and
\* sign_with_rsa both call custom_sign
patched_sign_with_rsa2(cfg, private_key, content) == custom_sign(cfg, content, private_key)
patched_sign_with_rsa(cfg, private_key, content) == custom_sign(cfg, content, private_key)

SignVia(via, cfg, private_key, content) ==
    CASE via = "sign_with_rsa2" -> patched_sign_with_rsa2(cfg, private_key, content)
      [] via = "sign_with_rsa"  -> patched_sign_with_rsa(cfg, private_key, content)
      [] OTHER                  -> custom_sign(cfg, content, private_key)

call_verify_sign ==
    /\ pc = "serving"
    /\ \E content \in Contents, sign \in SignInputs, key \in PublicKeyInputs :
         /\ req' = [route |-> "verify_sign", content |-> content, sign |-> sign, key |-> key]
         /\ resp' = verify_sign(config, content, sign, key)
    /\ pc' = "responded"
    /\ UNCHANGED <<config, verify_call, gateway_log>>

\* a signature made by the signer and handed to the verifier
call_sign_then_verify ==
    /\ pc = "serving"
    /\ \E content \in Contents, private_key \in PrivateKeyInputs, public_key \in PublicKeyInputs,
          via \in {"custom_sign", "sign_with_rsa2", "sign_with_rsa"} :
         LET signed == SignVia(via, config, private_key, content)
         IN  /\ req' = [route |-> "sign_then_verify", content |-> content, via |-> via,
                        private_key |-> private_key, public_key |-> public_key]
             /\ resp' = [signed |-> signed,
                         verified |-> IF signed.ok
                                      THEN verify_sign(config, content, signed.value, public_key)
                                      ELSE signed]
    /\ pc' = "responded"
    /\ UNCHANGED <<config, verify_call, gateway_log>>

call_validate_amount ==
    /\ pc = "serving"
    /\ \E amount \in JsonAmounts \cup {Inf(FALSE), Inf(TRUE)},
          field_name \in {"amount", "refund amount"} :
         /\ req' = [route |-> "validate_amount", amount |-> amount, field_name |-> field_name]
         /\ resp' = validate_amount(amount, field_name)
    /\ pc' = "responded"
    /\ UNCHANGED <<config, verify_call, gateway_log>>

call_validate_required ==
    /\ pc = "serving"
    /\ \E value \in Subjects \cup {Str(<<"test">>), Str(<<" ", " ">>),
                                     Str(<<" ", "a", " ", "b", " ">>),
                                     Num(0), Num(1), PyList(0)},
          field_name \in {"subject", "order id"} :
         /\ req' = [route |-> "validate_required", value |-> value, field_name |-> field_name]
         /\ resp' = validate_required(value, field_name)
    /\ pc' = "responded"
    /\ UNCHANGED <<config, verify_call, gateway_log>>

ResponseKeys == {"alipay_trade_precreate_response", "alipay_trade_query_response"}

\* a response handed over as text, or already decoded (lines 27)
ParseInputs ==
    LET texts == Bodies("alipay_trade_precreate_response", "qr_code", QrCodes)
    IN  texts \cup {b.v : b \in {x \in texts : x.t = "jsontext"}} \cup {None}

call_parse_response ==
    /\ pc = "serving"
    /\ \E resp_str \in ParseInputs, response_key \in ResponseKeys :
         /\ req' = [route |-> "parse_response", resp_str |-> resp_str,
                    response_key |-> response_key]
         /\ resp' = parse_response(resp_str, response_key)
    /\ pc' = "responded"
    /\ UNCHANGED <<config, verify_call, gateway_log>>

------------------------------------------------------------------------------
(* Configuration after start-up *)

\* ALIPAY_PUBLIC_KEY as configured (only checked to be non-empty at start):
\* the gateway's key as bare base64, as PEM with the marker verify_sign
\* strips, as PEM with another marker, and text that is no key
PublicKeyMaterials ==
    {KeyMaterial("", 1), KeyMaterial("PUBLIC KEY", 1), KeyMaterial("RSA PUBLIC KEY", 1),
     KeyMaterial("", 0)}

SignTypes == {"RSA2", "RSA"}

Configs == [sign_type : SignTypes, alipay_public_key : PublicKeyMaterials]

Init ==
    /\ config \in Configs
    /\ pc = "serving"
    /\ req = [route |-> "none"]
    /\ resp = [status |-> 0]
    /\ verify_call = NoVerify
    /\ gateway_log = <<>>

Next ==
    \/ call_validate_amount
    \/ call_validate_required
    \/ call_parse_response
    \/ call_verify_sign
    \/ call_sign_then_verify
    \/ alipay_notify
    \/ alipay_notify_check
    \/ pay_now
    \/ create_pay
    \/ query_order
    \/ cancel_order
    \/ refund

Spec == Init /\ [][Next]_vars

-------------------------------------------------------------------------------
(* alipay_config.py: the start-up of the process, config = Config() *)

\* the environment variables the loader reads for the settings of interest
EnvNames ==
    {"ALIPAY_APP_ID", "ALIPAY_APP_PRIVATE_KEY", "ALIPAY_PUBLIC_KEY",
     "ALIPAY_SIGN_TYPE", "ALIPAY_IS_SANDBOX", "ALIPAY_NOTIFY_URL",
     "ALIPAY_RETURN_URL", "FLASK_HOST", "FLASK_PORT"}

\* the values each variable is drawn from: unset, empty, blank or some text
EnvValues(name) ==
    CASE name = "ALIPAY_APP_ID" ->
             {Absent, Str(<<>>), Str(<<" ">>), Str(<<" ", "2021000000000001">>)}
      [] name = "ALIPAY_APP_PRIVATE_KEY" -> {Absent, Str(<<" ">>), Str(<<"MIIEvQ">>)}
      [] name = "ALIPAY_PUBLIC_KEY" -> {Absent, Str(<<>>), Str(<<"MIIBIj">>)}
      [] name = "ALIPAY_SIGN_TYPE" -> {Absent, Str(<<>>), Str(<<"rsa">>)}
      [] name = "ALIPAY_IS_SANDBOX" -> {Absent, Str(<<>>), Str(<<"True">>)}
      [] name = "ALIPAY_NOTIFY_URL" ->
             {Absent, Str(<<>>), Str(<<"https://shop.example/api/notify">>)}
      [] name = "ALIPAY_RETURN_URL" ->
             {Absent, Str(<<"https://shop.example/alipay/return">>)}
      [] name = "FLASK_HOST" -> {Absent, Str(<<>>), Str(<<"127.0.0.1">>)}
      [] name = "FLASK_PORT" -> {Absent, Str(<<>>), Str(<<"8000">>)}

Environments ==
    [ALIPAY_APP_ID : EnvValues("ALIPAY_APP_ID"),
     ALIPAY_APP_PRIVATE_KEY : EnvValues("ALIPAY_APP_PRIVATE_KEY"),
     ALIPAY_PUBLIC_KEY : EnvValues("ALIPAY_PUBLIC_KEY"),
     ALIPAY_SIGN_TYPE : EnvValues("ALIPAY_SIGN_TYPE"),
     ALIPAY_IS_SANDBOX : EnvValues("ALIPAY_IS_SANDBOX"),
     ALIPAY_NOTIFY_URL : EnvValues("ALIPAY_NOTIFY_URL"),
     ALIPAY_RETURN_URL : EnvValues("ALIPAY_RETURN_URL"),
     FLASK_HOST : EnvValues("FLASK_HOST"),
     FLASK_PORT : EnvValues("FLASK_PORT")]

\* os.getenv(name, default)
Getenv(env, name, default) == IF env[name] = Absent THEN default ELSE env[name]

\* str.upper() and str.lower(), token by token
UpperToken(c) ==
    CASE c = "rsa" -> "RSA" [] c = "rsa2" -> "RSA2" [] c = "True" -> "TRUE" [] OTHER -> c
LowerToken(c) ==
    CASE c = "RSA" -> "rsa" [] c = "RSA2" -> "rsa2" [] c = "True" -> "true" [] OTHER -> c
Upper(v) == Str([i \in 1..Len(v.s) |-> UpperToken(v.s[i])])
Lower(v) == Str([i \in 1..Len(v.s) |-> LowerToken(v.s[i])])

\* int(x): an int stays, a str must hold decimal digits
ToInt(v) ==
    CASE v.t = "num" -> Return(v.cents)
      [] v = Str(<<"8000">>) -> Return(8000)
      [] OTHER -> Raise("ValueError", <<"invalid literal for int() with base 10: ">>
                                          \o Format(v))

\* the three credentials: os.getenv(name, '').strip()
Credential(env, name) == Strip(Getenv(env, name, Str(<<>>)))

\* the optional settings of _load_alipay_config, each with its default
AlipaySettings(env) ==
    LET sandbox_env == Lower(Getenv(env, "ALIPAY_IS_SANDBOX", Str(<<"false">>)))
        is_sandbox == sandbox_env \in
            {Str(<<"true">>), Str(<<"1">>), Str(<<"yes">>), Str(<<"on">>)}
    IN  [app_id |-> Credential(env, "ALIPAY_APP_ID"),
         app_private_key |-> Credential(env, "ALIPAY_APP_PRIVATE_KEY"),
         alipay_public_key |-> Credential(env, "ALIPAY_PUBLIC_KEY"),
         sign_type |-> Upper(Getenv(env, "ALIPAY_SIGN_TYPE", Str(<<"RSA2">>))),
         is_sandbox |-> is_sandbox,
         notify_url |-> Strip(Getenv(env, "ALIPAY_NOTIFY_URL",
                                     Str(<<"http://localhost:5000/api/notify">>))),
         return_url |-> Strip(Getenv(env, "ALIPAY_RETURN_URL",
                                     Str(<<"http://localhost:5000/alipay/return">>))),
         gateway |-> IF is_sandbox THEN "https://openapi.alipaydev.com/gateway.do"
                     ELSE "https://openapi.alipay.com/gateway.do"]

load_alipay_config_NoPublicKeyCheck(env) ==
    IF ~Truthy(Credential(env, "ALIPAY_APP_ID"))
    THEN Raise("ValueError", <<"config error: missing ", "ALIPAY_APP_ID">>)
    ELSE IF ~Truthy(Credential(env, "ALIPAY_APP_PRIVATE_KEY"))
    THEN Raise("ValueError", <<"config error: missing ", "ALIPAY_APP_PRIVATE_KEY">>)
    ELSE Return(AlipaySettings(env))

\* Config._load_alipay_config; the messages are, in the source,
\* "❌ 配置错误: 缺少 <NAME>，请在 .env 文件中配置"
load_alipay_config(env) ==
    IF ~Truthy(Credential(env, "ALIPAY_APP_ID"))
    THEN Raise("ValueError", <<"config error: missing ", "ALIPAY_APP_ID">>)
    ELSE IF ~Truthy(Credential(env, "ALIPAY_APP_PRIVATE_KEY"))
    THEN Raise("ValueError", <<"config error: missing ", "ALIPAY_APP_PRIVATE_KEY">>)
    ELSE IF ~Truthy(Credential(env, "ALIPAY_PUBLIC_KEY"))
    THEN Raise("ValueError", <<"config error: missing ", "ALIPAY_PUBLIC_KEY">>)
    ELSE Return(AlipaySettings(env))

\* Config._load_integration_config
load_integration_config(env) ==
    LET flask_port == ToInt(Getenv(env, "FLASK_PORT", Num(5000)))
    IN  IF ~flask_port.ok THEN flask_port
        ELSE Return([
            flask_host |-> Getenv(env, "FLASK_HOST", Str(<<"0.0.0.0">>)),
            flask_port |-> flask_port.value])

\* Config(): both loaders in turn, the first exception escapes
Config(env) ==
    LET alipay == load_alipay_config(env)
        integration == load_integration_config(env)
    IN  IF ~alipay.ok THEN alipay
        ELSE IF ~integration.ok THEN integration
        ELSE Return([
            app_id |-> alipay.value.app_id,
            app_private_key |-> alipay.value.app_private_key,
            alipay_public_key |-> alipay.value.alipay_public_key,
            sign_type |-> alipay.value.sign_type,
            is_sandbox |-> alipay.value.is_sandbox,
            notify_url |-> alipay.value.notify_url,
            return_url |-> alipay.value.return_url,
            gateway |-> alipay.value.gateway,
            flask_host |-> integration.value.flask_host,
            flask_port |-> integration.value.flask_port])

\* before the module-level statement ran, the name config is unbound
Unbound == [t |-> "unbound"]

\* the module-level try: config = Config(); both except clauses log and
\* re-raise, so the import fails and the process does not start
load_config ==
    /\ pc = "starting"
    /\ LET loaded == Config(req.env)
       IN  /\ resp' = loaded
           /\ IF loaded.ok
              THEN config' = loaded.value /\ pc' = "started"
              ELSE config' = config /\ pc' = "fatal"
    /\ UNCHANGED <<req, verify_call, gateway_log>>

ConfigInit ==
    /\ config = Unbound
    /\ pc = "starting"
    /\ req \in [route : {"Config()"}, env : Environments]
    /\ resp = [status |-> 0]
    /\ verify_call = NoVerify
    /\ gateway_log = <<>>

ConfigNext == load_config

ConfigSpec == ConfigInit /\ [][ConfigNext]_vars

------------------------------------------------------------------------------
(* Properties *)

Responded(route) == pc = "responded" /\ req.route = route

\* the handler called verify_sign and it returned True
VerifyPassed ==
    /\ verify_call.called
    /\ verify_call.outcome.ok
    /\ verify_call.outcome.value

\* the result object of a gateway body: the member under the envelope key,
\* or the body itself when it has no such member
EnvelopeResult(body, response_key) ==
    LET decoded == IF body.t = "jsontext" THEN body.v ELSE body
    IN  IF decoded.t # "dict" THEN None
        ELSE IF response_key \in DOMAIN decoded.d THEN decoded.d[response_key] ELSE decoded

HasField(result, k) == result.t = "dict" /\ k \in DOMAIN result.d

\* the gateway was reached and answered with this result object
GatewayResult(response_key) ==
    IF "executed" \in DOMAIN req /\ req.executed.ok
    THEN EnvelopeResult(req.executed.value, response_key) ELSE None

ResponseKeyOf(route) ==
    CASE route = "GET /paynow"            -> "alipay_trade_precreate_response"
      [] route = "POST /api/pay/create"   -> "alipay_trade_precreate_response"
      [] route = "GET /api/order/query"   -> "alipay_trade_query_response"
      [] route = "POST /api/order/cancel" -> "alipay_trade_cancel_response"
      [] route = "POST /api/refund"       -> "alipay_trade_refund_response"
      [] OTHER                            -> "none"

\* C1: POST /api/notify answers `fail` whenever the payload has no (or an
\* empty) sign or the signature check did not pass, and so never answers
\* `success` for a notification that did not verify.  The code raises out of
\* the handler when the configured public key cannot be imported.
C1_NotifyFailsUnlessVerified ==
    (Responded("POST /api/notify") /\ ~VerifyPassed) => resp = PlainResponse(200, "fail")

\* C2: every POST /api/notify is answered with a body that is exactly
\* `success` or exactly `fail`, whatever the form and the configured key.
C2_NotifyBodyIsSuccessOrFail ==
    Responded("POST /api/notify") => (resp.status = 200 /\ resp.body \in {"success", "fail"})

\* C3: once the signature has verified, the handler answers `success` for
\* every trade_status: the four known values, an unknown one, an absent one.
C3_VerifiedNotifyIsAcknowledged ==
    (Responded("POST /api/notify") /\ VerifyPassed) => resp = PlainResponse(200, "success")

\* a verified notification with a trade_status the handler does not know
C3_Witness ==
    /\ Responded("POST /api/notify")
    /\ VerifyPassed
    /\ \E i \in 1..Len(req.form) : req.form[i] = <<"trade_status", Str(<<"UNKNOWN">>)>>
    /\ resp.body = "success"

\* the fields of the form that take part in the signed string
SignedFields(form) ==
    {i \in 1..Len(form) : form[i][1] \notin {"sign", "sign_type"} /\ form[i][2].s # <<>>}

\* C4: the string passed to the verifier is the key=value pairs joined with
\* &, in ascending key order, of exactly the fields whose value is non-empty
\* and whose key is neither sign nor sign_type.
C4_SignContentIsCanonical ==
    (Responded("POST /api/notify") /\ verify_call.called) =>
        LET form == req.form
            c == verify_call.content
            n == Cardinality(SignedFields(form))
        IN  /\ Len(c) = IF n = 0 THEN 0 ELSE 4 * n - 1
            /\ \A j \in 1..n :
                 /\ \E i \in SignedFields(form) :
                      form[i][1] = c[4 * j - 3] /\ form[i][2].s = <<c[4 * j - 1]>>
                 /\ c[4 * j - 2] = "="
                 /\ j < n => c[4 * j] = "&"
            /\ \A j \in 1..(n - 1) : KeyLess(c[4 * j - 3], c[4 * j + 1])

\* a signed form carrying sign_type whose signed fields arrive out of order
C4_Witness ==
    /\ Responded("POST /api/notify")
    /\ verify_call.called
    /\ \E i \in 1..Len(req.form) : req.form[i][1] = "sign_type"
    /\ \E i, j \in SignedFields(req.form) : i < j /\ KeyLess(req.form[j][1], req.form[i][1])
    /\ Len(verify_call.content) = 7

\* C5: verify_sign never raises: on a mismatch, on a decoding failure of the
\* signature or of the key material, on a malformed signature it returns
\* False.  The code imports the key outside its try block.
C5_VerifySignNeverRaises ==
    Responded("verify_sign") => (resp.ok /\ resp.value \in BOOLEAN)

\* C6: a signature made by custom_sign (directly or through the functions
\* patched into the SDK) over non-empty content verifies under the public key
\* of the same pair, under both sign types.
C6_SignVerifyRoundTrip ==
    (/\ Responded("sign_then_verify")
     /\ req.private_key.body > 0
     /\ req.public_key.body = req.private_key.body)
    => (resp.signed.ok /\ resp.verified.ok /\ resp.verified.value = TRUE)

\* a round trip under the SHA1 sign type through the patched SDK function
C6_Witness ==
    /\ Responded("sign_then_verify")
    /\ config.sign_type = "RSA"
    /\ req.via = "sign_with_rsa"
    /\ req.private_key = KeyMaterial("RSA PRIVATE KEY", 1)
    /\ req.public_key = KeyMaterial("PUBLIC KEY", 1)
    /\ resp.verified = Return(TRUE)

\* a value that is present, numeric and strictly greater than zero
PositiveNumber(a) ==
    \/ a.t \in {"num", "numstr"} /\ a.cents > 0
    \/ a = Inf(FALSE)

\* C7: validate_amount returns the value as a number exactly when it is
\* present, numeric and strictly greater than zero, and otherwise raises a
\* validation error whose message names the field.  The code lets nan pass.
C7_AmountAcceptedIffPositive ==
    Responded("validate_amount") =>
        /\ resp.ok <=> PositiveNumber(req.amount)
        /\ resp.ok => resp.value.t \in {"num", "inf"}
        /\ ~resp.ok => (resp.exc = "ValueError" /\ Head(resp.message) = req.field_name)

\* the gateway answered the precreate with code "10000" and no usable qr_code
PrecreateWithoutQrCode ==
    LET result == GatewayResult("alipay_trade_precreate_response")
    IN  /\ HasField(result, "code")
        /\ result.d["code"] = Str(<<"10000">>)
        /\ (HasField(result, "qr_code") => result.d["qr_code"] = Str(<<>>))

\* C8: when the gateway answers a precreate with code "10000" but no (or an
\* empty) qr_code, GET /paynow and POST /api/pay/create both answer with an
\* error.  create_pay does not look at the value.
C8_MissingQrCodeIsAFailure ==
    ((Responded("GET /paynow") \/ Responded("POST /api/pay/create")) /\ PrecreateWithoutQrCode)
    => resp.status >= 400

\* C9: parse_response returns the nested result mapping exactly when that
\* mapping's business code equals "10000"; a body that is no mapping, or a
\* code of any other value (or none), makes it raise.
C9_ParseReturnsIffCode10000 ==
    Responded("parse_response") =>
        LET result == EnvelopeResult(req.resp_str, req.response_key)
            success == HasField(result, "code") /\ result.d["code"] = Str(<<"10000">>)
        IN  /\ resp.ok <=> success
            /\ resp.ok => resp.value = result

\* an envelope whose result carries no code at all: an error
C9_Witness ==
    /\ Responded("parse_response")
    /\ req.resp_str.t = "jsontext"
    /\ HasField(req.resp_str.v, req.response_key)
    /\ LET result == EnvelopeResult(req.resp_str, req.response_key)
       IN  result.t = "dict" /\ ~HasField(result, "code") /\ HasField(result, "qr_code")
    /\ ~resp.ok

\* the gateway answered with a business code other than "10000" that carries
\* a sub_code and a (non-empty) sub_msg
BusinessError(result) ==
    /\ HasField(result, "code") /\ result.d["code"] # Str(<<"10000">>)
    /\ HasField(result, "sub_code")
    /\ HasField(result, "sub_msg") /\ result.d["sub_msg"] # Str(<<>>)

JsonRoutes == {"POST /api/pay/create", "GET /api/order/query", "POST /api/order/cancel",
               "POST /api/refund"}

\* C10: when the gateway returns a business code other than "10000" with
\* sub_code and sub_msg, each JSON endpoint (create, query, cancel, refund)
\* answers with a 5xx status, code -1 and the message `sub_code: sub_msg`.
C10_BusinessErrorIs5xx ==
    \A route \in JsonRoutes :
        LET result == GatewayResult(ResponseKeyOf(route))
        IN  (Responded(route) /\ BusinessError(result)) =>
                /\ resp.status \in 500..599
                /\ resp.json.code = -1
                /\ resp.json.message = result.d["sub_code"].s \o <<": ">> \o result.d["sub_msg"].s

\* a refund the gateway rejects with code 40004 although a msg is present too
C10_Witness ==
    /\ Responded("POST /api/refund")
    /\ LET result == GatewayResult("alipay_trade_refund_response")
       IN  /\ BusinessError(result)
           /\ result.d["code"] = Str(<<"40004">>)
           /\ HasField(result, "msg")
    /\ resp.status = 500
    /\ resp.json.message = <<"ACQ.TRADE_NOT_EXIST", ": ", "trade not exist">>

\* the gateway answered the precreate with code "10000" and a qr_code value
PrecreateWithQrCode ==
    LET result == GatewayResult("alipay_trade_precreate_response")
    IN  /\ HasField(result, "code")
        /\ result.d["code"] = Str(<<"10000">>)
        /\ HasField(result, "qr_code")
        /\ result.d["qr_code"] # Str(<<>>)

\* C11: POST /api/pay/create with a valid amount and subject, when the
\* gateway returns code "10000" with a qr_code value, answers with code 0 and
\* exactly that qr_code, together with the order id, amount and subject that
\* were sent to the gateway.
C11_CreateReturnsGatewayQrCode ==
    (Responded("POST /api/pay/create") /\ PrecreateWithQrCode) =>
        LET result == GatewayResult("alipay_trade_precreate_response")
            sent == gateway_log[1].biz_content
        IN  /\ Len(gateway_log) = 1
            /\ resp.status = 200
            /\ resp.json.code = 0
            /\ resp.json.qr_code = result.d["qr_code"]
            /\ resp.json.order_id = sent.out_trade_no
            /\ PyStr(resp.json.amount) = sent.total_amount
            /\ resp.json.subject = sent.subject

\* an order of one hundredth for " test " that the gateway accepts
C11_Witness ==
    /\ Responded("POST /api/pay/create")
    /\ PrecreateWithQrCode
    /\ req.data.total_amount = Num(1)
    /\ req.data.out_trade_no = Str(<<"T1">>)
    /\ resp.json.qr_code = Str(<<"https://qr.alipay.com/bax0">>)
    /\ resp.json.subject = Str(<<"test">>)
    /\ HasField(req.executed.value.v, "alipay_trade_precreate_response")

\* the setting is set in the environment to a non-empty value
EnvSet(name) == req.env[name] # Absent /\ req.env[name] # Str(<<>>)

\* the setting is set to something other than blanks
EnvNonBlank(name) == req.env[name] # Absent /\ Strip(req.env[name]) # Str(<<>>)

RequiredEnvNames == {"ALIPAY_APP_ID", "ALIPAY_APP_PRIVATE_KEY", "ALIPAY_PUBLIC_KEY"}

NonBlankAt(seq) == {i \in 1..Len(seq) : seq[i] # " "}
Least(S) == CHOOSE i \in S : \A j \in S : i <= j
Greatest(S) == CHOOSE i \in S : \A j \in S : j <= i

\* a value that is present and non-blank: a text with a non-blank character
PresentNonBlank(v) == v.t = "str" /\ NonBlankAt(v.s) # {}

\* the text from its first to its last non-blank character
Trimmed(v) == Str(SubSeq(v.s, Least(NonBlankAt(v.s)), Greatest(NonBlankAt(v.s))))

\* C13: validate_required accepts a missing or textual value exactly when it
\* is present and non-blank after trimming, and then returns the trimmed
\* text; a missing, empty or whitespace-only value is rejected with a
\* validation error that names the field.
C13_RequiredAcceptsIffNonBlank ==
    (Responded("validate_required") /\ req.value.t \in {"None", "str"}) =>
        IF PresentNonBlank(req.value)
        THEN resp = Return(Trimmed(req.value))
        ELSE /\ ~resp.ok
             /\ resp.exc = "ValueError"
             /\ Head(resp.message) = req.field_name

\* " a b " is accepted and comes back as "a b"
C13_Witness ==
    /\ Responded("validate_required")
    /\ req.value = Str(<<" ", "a", " ", "b", " ">>)
    /\ resp = Return(Str(<<"a", " ", "b">>))

CreateRoutes == {"GET /paynow", "POST /api/pay/create"}

\* the out_trade_no the caller put into the query string or the JSON body
SuppliedOrderId ==
    IF req.route = "GET /paynow" THEN req.args.out_trade_no ELSE req.data.out_trade_no

\* the order id the answer reports: in the page or in the JSON body
ReportedOrderId ==
    IF req.route = "GET /paynow" THEN resp.html.order_id ELSE resp.json.order_id

\* C14: in both create endpoints the order id sent to the gateway is the
\* caller's out_trade_no when one is given, and otherwise a generated token
\* of exactly 20 characters; a successful answer reports that same order id.
C14_OrderIdSuppliedOrGenerated ==
    (pc = "responded" /\ req.route \in CreateRoutes /\ gateway_log # <<>>) =>
        LET sent == gateway_log[1].biz_content.out_trade_no
        IN  /\ IF SuppliedOrderId.t = "str" /\ SuppliedOrderId.s # <<>>
               THEN sent = SuppliedOrderId
               ELSE /\ sent.t = "str"
                    /\ Len(sent.s) = 20
                    /\ \A i \in 1..Len(sent.s) : sent.s[i] # "-"
            /\ resp.status = 200 => ReportedOrderId = sent

\* a JSON order without out_trade_no is created under a generated id
C14_Witness ==
    /\ Responded("POST /api/pay/create")
    /\ req.data.out_trade_no = None
    /\ resp.status = 200
    /\ Len(resp.json.order_id.s) = 20
    /\ gateway_log[1].biz_content.out_trade_no = resp.json.order_id

\* the routes that validate caller input before they turn to the gateway
ValidatingRoutes ==
    CreateRoutes \cup {"GET /api/order/query", "POST /api/order/cancel", "POST /api/refund"}

NotifyRoutes == {"POST /api/notify", "GET /api/notify"}

\* the request was answered by input validation: no outcome of a gateway
\* call belongs to it
RejectedByValidation ==
    pc = "responded" /\ req.route \in ValidatingRoutes /\ "executed" \notin DOMAIN req

\* C15: every HTTP request causes at most one gateway call, with no retry;
\* a request rejected by input validation causes none and is answered with
\* a 4xx status and code -1; the notification handler never calls the
\* gateway.
C15_AtMostOneGatewayCall ==
    /\ Len(gateway_log) <= 1
    /\ RejectedByValidation =>
          /\ gateway_log = <<>>
          /\ resp.status \in 400..499
          /\ resp.json.code = -1
    /\ (pc = "responded" /\ req.route \in NotifyRoutes) => gateway_log = <<>>
    /\ (pc = "responded" /\ "executed" \in DOMAIN req) =>
          /\ Len(gateway_log) = 1
          /\ "json" \in DOMAIN resp => resp.status \notin 400..499

\* a refund without an order id is turned away before the gateway is asked
C15_Witness ==
    /\ Responded("POST /api/refund")
    /\ req.data.out_trade_no = None
    /\ req.data.refund_amount = Num(1)
    /\ resp = error_response(<<"order id", " must not be empty">>, 400)
    /\ gateway_log = <<>>

====
